---------------------------- MODULE Spec2Model ----------------------------
(***************************************************************************)
(* cqwens/PromMonitoring: the HTTP metrics middleware (middleware.go) and  *)
(* the construction of its instruments (main.go).                          *)
(*                                                                         *)
(* A request travels RecoverMiddleware -> Middleware -> the interceptor    *)
(* (metricsResponseWriter) -> the downstream handler, and back.  Every     *)
(* call on a Prometheus instrument is one atomic step; the handler is any  *)
(* sequence of WriteHeader / Write calls ending in a return or a panic.    *)
(***************************************************************************)
EXTENDS Integers, Sequences, FiniteSets, Bags, TLC

(***************************************************************************)
(* Bounds of the model.                                                    *)
(***************************************************************************)
NumReq == 2        \* requests served concurrently
NumCalls == 2      \* calls of InitMetrics, GetMetrics, SetupMetricsServer in one run
MaxWork == 5       \* size of one run: a request costs 2, a WriteHeader/Write call 1
MaxLen == 2        \* bytes a handler passes to one Write, at most

(***************************************************************************)
(* Program constants.                                                      *)
(***************************************************************************)
StatusOK == 200
StatusInternalServerError == 500
ErrorBodyLen == 22     \* len("Internal Server Error\n"), the body http.Error prints

Req == 1..NumReq

\* The requests of the spec's scenarios: <<r.Method, r.URL.Path, r.ContentLength>>.
\* ContentLength is -1 when the length is unknown.
Shapes ==
    { <<"GET", "/users", 0>>, <<"POST", "/orders", 1500>>, <<"GET", "/health", -1>> }

Methods == { s[1] : s \in Shapes }

\* Status codes a handler passes to WriteHeader.
Codes == { 200, 404, 503 }

\* len(b) of the slices a handler passes to Write.
WriteLens == { 1, MaxLen }

\* Seconds time.Since(start) reports.
Elapsed == { 0, 1 }

VARIABLES
    pc,                \* where each request is in the chain
    method, path, contentLength,        \* r.Method, r.URL.Path, r.ContentLength
    statusCode, responseSize,           \* the request's metricsResponseWriter
    exit,              \* how the downstream handler ended: "return" or "panic"
    panicking,         \* the value of the panic unwinding the request, or "none"
    err,               \* what recover() returned in RecoverMiddleware's deferred func
    sink,              \* the calls that reached the request's real ResponseWriter
    got,               \* the calls the handler made and what each returned to it
    emitted,           \* the instrument calls made on behalf of the request
    RequestCounter, ResponseDuration, RequestSize, ResponseSize,
    RequestsInFlight, TotalErrors, RequestsByStatus,
    registered,        \* the instrument names each prometheus registry holds
    registrations,     \* the <<registry, name>> registrations the construction made
    metrics,           \* the package variable metrics: 0 is nil, n the n-th bundle built
    metricsNs,         \* the namespace the bundle in metrics was built with
    built,             \* how many times NewMetrics has been entered
    metricsOnce,       \* the sync.Once: "new", "running" or "done"
    cpc,               \* where each call of main.go's functions is
    ckind,             \* the function called
    ccfg,              \* its cfg, after the nil check
    cresult,           \* what it returned: a value of metrics, or "none"
    served             \* the registry behind the mux SetupMetricsServer returned

reqVars == <<method, path, contentLength>>
writerVars == <<statusCode, responseSize>>
ioVars == <<sink, got>>
counterVars == <<RequestCounter, ResponseDuration, RequestSize, ResponseSize,
                 TotalErrors, RequestsByStatus>>
panicVars == <<exit, panicking, err>>
chainVars == <<pc, reqVars, writerVars, panicVars, ioVars, emitted, counterVars,
               RequestsInFlight>>
setupVars == <<registered, registrations, metrics, metricsNs, built, metricsOnce>>
callVars == <<cpc, ckind, ccfg, cresult, served>>
mainVars == <<setupVars, callVars>>
vars == <<chainVars, mainVars>>

(***************************************************************************)
(* strconv.Itoa, for the non-negative numbers the labels are made of.      *)
(***************************************************************************)
Digit(d) ==
    CASE d = 0 -> "0" [] d = 1 -> "1" [] d = 2 -> "2" [] d = 3 -> "3"
      [] d = 4 -> "4" [] d = 5 -> "5" [] d = 6 -> "6" [] d = 7 -> "7"
      [] d = 8 -> "8" [] d = 9 -> "9"

RECURSIVE Itoa(_)
Itoa(n) == IF n < 10 THEN Digit(n) ELSE Itoa(n \div 10) \o Digit(n % 10)

(***************************************************************************)
(* The instruments.  A CounterVec is the bag of its increments' labels, a  *)
(* HistogramVec the bag of <<labels, value>> observations, the GaugeVec a  *)
(* value per method.                                                       *)
(***************************************************************************)
\* a series that is created by its first increment and never incremented again
Inc_OncePerSeries(vec, labels) ==
    IF BagIn(labels, vec) THEN vec ELSE vec (+) SetToBag({labels})

Inc(vec, labels) == vec (+) SetToBag({labels})

Observe(vec, labels, v) == vec (+) SetToBag({<<labels, v>>})

\* one call on an instrument: Inc (v = 1), Dec (v = -1) or Observe(v)
Event(inst, labels, v) == [inst |-> inst, labels |-> labels, v |-> v]

(***************************************************************************)
(* The real ResponseWriter under the interceptor.  It is the server's: a   *)
(* Write of n bytes reports how many it accepted, and an error when it     *)
(* accepted fewer (io.Writer): everything, all but the last byte, nothing. *)
(***************************************************************************)
SinkAccepts(n) == { k \in 0..n : k = n \/ k = n - 1 \/ k = 0 }

HeaderCall(code) == [op |-> "WriteHeader", arg |-> code, size |-> 0, err |-> FALSE]

WriteCall(n, size, e) == [op |-> "Write", arg |-> n, size |-> size, err |-> e]

(***************************************************************************)
(* metricsResponseWriter                                                   *)
(***************************************************************************)
\* w.statusCode = statusCode
CaptureStatus(old, code) == code

\* the requested length counted in place of the written one
AddWritten_Requested(total, n, size) == total + n

\* size, err := w.ResponseWriter.Write(b); w.responseSize += int64(size)
AddWritten(total, n, size) == total + size

\* a Write that reports success whatever the sink said
WriteResult_Swallowed(n, size, e) == WriteCall(n, n, FALSE)

\* return size, err: what Write(b), len(b) = n, hands back to the handler
WriteResult(n, size, e) == WriteCall(n, size, e)

(***************************************************************************)
(* Middleware's derived values                                             *)
(***************************************************************************)
\* a length of 0 observed too
ObservesRequestSize_NonNegative(len) == len >= 0

\* if r.ContentLength > 0
ObservesRequestSize(len) == len > 0

\* float64(n): exact for every n below 2^53, so for every number of the model
Float64(n) == n

\* the status class used where the status code is meant
StatusLabel_Class(s) == Itoa(s \div 100)

\* statusCode := strconv.Itoa(metricsWriter.statusCode)
StatusLabel(s) == Itoa(s)

\* a division by 10 in place of 100
StatusClass_Tens(s) == Itoa(s \div 10) \o "xx"

\* statusClass := strconv.Itoa(metricsWriter.statusCode/100) + "xx"
StatusClass(s) == Itoa(s \div 100) \o "xx"

\* an observation also for a response without a body
ObservesResponseSize_NonNegative(size) == size >= 0

\* if metricsWriter.responseSize > 0
ObservesResponseSize(size) == size > 0

\* 400 itself left out
IsError_Above400(s) == s > 400

\* if metricsWriter.statusCode >= 400
IsError(s) == s >= 400

\* errorType := "client_error"; if statusCode >= 500 { errorType = "server_error" }
ErrorType(s) == IF s >= 500 THEN "server_error" ELSE "client_error"

(***************************************************************************)
(* recover().  A panic with a non-nil value is returned as that value.     *)
(* panic(nil) is returned as nil by toolchains before Go 1.21 (and under   *)
(* GODEBUG=panicnil=1) and as a *runtime.PanicNilError by later ones; the  *)
(* repository pins no toolchain, so both are possible.                     *)
(***************************************************************************)
RecoverValues(p) ==
    CASE p = "none" -> { "nil" }
      [] p = "nil" -> { "nil", "PanicNilError" }
      [] OTHER -> { p }

\* a deferred func that never calls recover(), or panics again
AfterRecover_StillPanicking(p) == p

\* recover() stops the panic whatever it returns
AfterRecover(p) == "none"

\* if err := recover(); err != nil
Recovered(e) == e /= "nil"

(***************************************************************************)
(* main.go: the package-level bundle and its construction.                 *)
(*                                                                         *)
(* A registry is named by a pair: the registry behind                      *)
(* prometheus.DefaultRegisterer, which promauto registers into; a registry *)
(* the application made and passes in its Config; the registry a call of   *)
(* DefaultConfig() or of MetricsHandler makes with prometheus.NewRegistry().*)
(***************************************************************************)
Calls == 1..NumCalls

Kinds == { "InitMetrics", "GetMetrics", "SetupMetricsServer" }

DefaultRegistry == <<"prometheus.DefaultRegisterer", 0>>

AppRegistry == <<"application", 0>>

\* Config.Registry == nil
NoRegistry == <<"nil", 0>>

Registries ==
    { DefaultRegistry, AppRegistry }
       \cup { <<"DefaultConfig", c>> : c \in Calls }
       \cup { <<"MetricsHandler", c>> : c \in Calls }

\* the Name of the seven instruments, in the order NewMetrics makes them
InstrumentNames ==
    << "http_requests_total", "http_request_duration_seconds",
       "http_request_size_bytes", "http_response_size_bytes",
       "http_requests_in_flight", "http_errors_total", "http_requests_by_status" >>

\* the fully qualified name of an instrument made with Namespace: namespace
FullName(namespace, name) == namespace \o "_" \o name

\* the seven instruments of a bundle built with the namespace, by name
Collectors(namespace) ==
    [i \in 1..Len(InstrumentNames) |-> FullName(namespace, InstrumentNames[i])]

\* the names of the seven instruments of a bundle built with the namespace
BundleOf(namespace) == { Collectors(namespace)[i] : i \in 1..Len(InstrumentNames) }

\* a registration that lets a name that is already registered pass
RECURSIVE MustRegister_Lenient(_, _)
MustRegister_Lenient(held, cs) ==
    IF cs = << >> THEN [held |-> held, panicked |-> FALSE]
    ELSE MustRegister_Lenient(held \cup { Head(cs) }, Tail(cs))

\* Registry.MustRegister(cs...): the collectors are registered one after the
\* other and the first whose name the registry already holds panics, the ones
\* before it staying registered.  promauto.NewCounterVec, NewHistogramVec and
\* NewGaugeVec do the same with one instrument on DefaultRegistry.
RECURSIVE MustRegister(_, _)
MustRegister(held, cs) ==
    IF cs = << >> THEN [held |-> held, panicked |-> FALSE]
    ELSE IF Head(cs) \in held THEN [held |-> held, panicked |-> TRUE]
    ELSE MustRegister(held \cup { Head(cs) }, Tail(cs))

\* cfg == nil
NilConfig == [null |-> TRUE, Namespace |-> "", Registry |-> NoRegistry]

\* DefaultConfig(), called by call c
DefaultConfig(c) ==
    [null |-> FALSE, Namespace |-> "app", Registry |-> <<"DefaultConfig", c>>]

\* The configurations a call is made with: nil; the application's own registry;
\* no registry; the registry promauto registers into.
Configs ==
    { NilConfig,
      [null |-> FALSE, Namespace |-> "app", Registry |-> AppRegistry],
      [null |-> FALSE, Namespace |-> "myapp", Registry |-> NoRegistry],
      [null |-> FALSE, Namespace |-> "myapp", Registry |-> DefaultRegistry] }

\* if cfg == nil { cfg = DefaultConfig() }
OrDefault(cfg, c) == IF cfg.null THEN DefaultConfig(c) ELSE cfg

\* the Once's func is running in some call
InOnce == \E c \in Calls : cpc[c] \in { "new_metrics", "register" }

\* What GetMetrics' unsynchronised read of metrics can see: the variable, or
\* still nil while the goroutine that wrote it is inside metricsOnce.Do.
RacyRead == IF InOnce THEN { 0, metrics } ELSE { metrics }

\* names other code of the process has registered before the bundle is built
Preexisting ==
    { [d |-> {}, a |-> {}],
      [d |-> { FullName("app", "http_errors_total") }, a |-> {}],
      [d |-> {}, a |-> { FullName("app", "http_request_size_bytes") }] }

\* the process before any call of main.go's functions
InitCalls ==
    /\ registrations = {}
    /\ metrics = 0
    /\ metricsNs = ""
    /\ built = 0
    /\ metricsOnce = "new"
    /\ cpc = [c \in Calls |-> "idle"]
    /\ ckind = [c \in Calls |-> ""]
    /\ ccfg = [c \in Calls |-> NilConfig]
    /\ cresult = [c \in Calls |-> "none"]
    /\ served = [c \in Calls |-> NoRegistry]

(***************************************************************************)
(* A call of InitMetrics(cfg) or SetupMetricsServer(cfg) starts: the nil   *)
(* check of cfg.  Calls are numbered in the order they start.              *)
(***************************************************************************)
CallWithConfig(c, kind, cfg) ==
    /\ cpc[c] = "idle"
    /\ \A b \in Calls : b < c => cpc[b] /= "idle"
    /\ ckind' = [ckind EXCEPT ![c] = kind]
    /\ ccfg' = [ccfg EXCEPT ![c] = OrDefault(cfg, c)]
    /\ cpc' = [cpc EXCEPT ![c] = "once"]
    /\ UNCHANGED <<setupVars, cresult, served>>
    /\ UNCHANGED chainVars

(***************************************************************************)
(* GetMetrics(): if metrics == nil { return InitMetrics(nil) };            *)
(* return metrics.                                                         *)
(***************************************************************************)
GetMetrics(c) ==
    /\ cpc[c] = "idle"
    /\ \A b \in Calls : b < c => cpc[b] /= "idle"
    /\ ckind' = [ckind EXCEPT ![c] = "GetMetrics"]
    /\ \E seen \in RacyRead :
          IF seen = 0
             THEN /\ ccfg' = [ccfg EXCEPT ![c] = OrDefault(NilConfig, c)]
                  /\ cpc' = [cpc EXCEPT ![c] = "once"]
                  /\ UNCHANGED cresult
             ELSE /\ cresult' = [cresult EXCEPT ![c] = seen]
                  /\ cpc' = [cpc EXCEPT ![c] = "returned"]
                  /\ UNCHANGED ccfg
    /\ UNCHANGED <<setupVars, served>>
    /\ UNCHANGED chainVars

(***************************************************************************)
(* metricsOnce.Do(f): the first caller runs f, a caller that comes while f *)
(* runs waits for it, a caller that comes after f skips it.                *)
(***************************************************************************)
OnceDo(c) ==
    /\ cpc[c] = "once"
    /\ metricsOnce /= "running"
    /\ IF metricsOnce = "new"
          THEN /\ metricsOnce' = "running"
               /\ cpc' = [cpc EXCEPT ![c] = "new_metrics"]
          ELSE /\ cpc' = [cpc EXCEPT ![c] = "ret"]
               /\ UNCHANGED metricsOnce
    /\ UNCHANGED <<registered, registrations, metrics, metricsNs, built,
                   ckind, ccfg, cresult, served>>
    /\ UNCHANGED chainVars

(***************************************************************************)
(* metrics = NewMetrics(cfg.Namespace): promauto makes the seven           *)
(* instruments and registers each into DefaultRegistry.  A panic leaves    *)
(* metrics as it was and the Once done.                                    *)
(***************************************************************************)
NewMetrics(c) ==
    /\ cpc[c] = "new_metrics"
    /\ LET res == MustRegister(registered[DefaultRegistry], Collectors(ccfg[c].Namespace))
       IN  /\ registered' = [registered EXCEPT ![DefaultRegistry] = res.held]
           /\ registrations' = registrations \cup
                 { <<DefaultRegistry, n>> : n \in res.held \ registered[DefaultRegistry] }
           /\ IF res.panicked
                 THEN /\ metricsOnce' = "done"
                      /\ cpc' = [cpc EXCEPT ![c] = "panicked"]
                      /\ UNCHANGED <<metrics, metricsNs, built>>
                 ELSE /\ built' = built + 1
                      /\ metrics' = built + 1
                      /\ metricsNs' = ccfg[c].Namespace
                      /\ cpc' = [cpc EXCEPT ![c] = "register"]
                      /\ UNCHANGED metricsOnce
    /\ UNCHANGED <<ckind, ccfg, cresult, served>>
    /\ UNCHANGED chainVars

(***************************************************************************)
(* if cfg.Registry != nil { cfg.Registry.MustRegister(the seven) }, and    *)
(* the end of the Once's func.                                             *)
(***************************************************************************)
RegisterBundle(c) ==
    /\ cpc[c] = "register"
    /\ metricsOnce' = "done"
    /\ IF ccfg[c].Registry /= NoRegistry
          THEN LET res == MustRegister(registered[ccfg[c].Registry], Collectors(metricsNs))
               IN  /\ registered' = [registered EXCEPT ![ccfg[c].Registry] = res.held]
                   /\ registrations' = registrations \cup
                         { <<ccfg[c].Registry, n>> :
                              n \in res.held \ registered[ccfg[c].Registry] }
                   /\ cpc' = [cpc EXCEPT ![c] =
                                 IF res.panicked THEN "panicked" ELSE "ret"]
          ELSE /\ cpc' = [cpc EXCEPT ![c] = "ret"]
               /\ UNCHANGED <<registered, registrations>>
    /\ UNCHANGED <<metrics, metricsNs, built, ckind, ccfg, cresult, served>>
    /\ UNCHANGED chainVars

(***************************************************************************)
(* InitMetrics: return metrics.                                            *)
(***************************************************************************)
InitReturn(c) ==
    /\ cpc[c] = "ret"
    /\ ckind[c] /= "SetupMetricsServer"
    /\ cresult' = [cresult EXCEPT ![c] = metrics]
    /\ cpc' = [cpc EXCEPT ![c] = "returned"]
    /\ UNCHANGED <<setupVars, ckind, ccfg, served>>
    /\ UNCHANGED chainVars

(***************************************************************************)
(* SetupMetricsServer after InitMetrics(cfg) returned: MetricsHandler(cfg) *)
(* serves cfg.Registry, a registry of its own making when that is nil, and *)
(* the mux handles cfg.MetricsPath with it.                                *)
(***************************************************************************)
SetupReturn(c) ==
    /\ cpc[c] = "ret"
    /\ ckind[c] = "SetupMetricsServer"
    /\ served' = [served EXCEPT ![c] =
                     IF ccfg[c].Registry = NoRegistry
                        THEN <<"MetricsHandler", c>> ELSE ccfg[c].Registry]
    /\ cpc' = [cpc EXCEPT ![c] = "returned"]
    /\ UNCHANGED <<setupVars, ckind, ccfg, cresult>>
    /\ UNCHANGED chainVars

RECURSIVE SumLen(_, _)
SumLen(f, S) ==
    IF S = {} THEN 0
    ELSE LET x == CHOOSE y \in S : TRUE IN Len(f[x]) + SumLen(f, S \ {x})

\* the handlers' WriteHeader/Write calls so far, over all requests
TotalCalls == SumLen(got, Req)

\* what the run has cost so far
Work == TotalCalls + 2 * Cardinality({ r \in Req : pc[r] /= "idle" })

\* the chain before any request
InitChain ==
    /\ pc = [r \in Req |-> "idle"]
    /\ method = [r \in Req |-> ""]
    /\ path = [r \in Req |-> ""]
    /\ contentLength = [r \in Req |-> 0]
    /\ statusCode = [r \in Req |-> 0]
    /\ responseSize = [r \in Req |-> 0]
    /\ exit = [r \in Req |-> ""]
    /\ panicking = [r \in Req |-> "none"]
    /\ err = [r \in Req |-> "nil"]
    /\ sink = [r \in Req |-> <<>>]
    /\ got = [r \in Req |-> <<>>]
    /\ emitted = [r \in Req |-> <<>>]
    /\ RequestCounter = EmptyBag
    /\ ResponseDuration = EmptyBag
    /\ RequestSize = EmptyBag
    /\ ResponseSize = EmptyBag
    /\ RequestsInFlight = [m \in Methods |-> 0]
    /\ TotalErrors = EmptyBag
    /\ RequestsByStatus = EmptyBag

\* The state the specifications of the chain start in.  Middleware is a method
\* of the bundle it records into, however that bundle was constructed: the
\* calls of main.go stay idle there and the registries empty.
Init ==
    /\ InitChain
    /\ InitCalls
    /\ registered = [g \in Registries |-> {}]

(***************************************************************************)
(* RecoverMiddleware, entry: the server hands request r to the chain; the  *)
(* deferred func is registered and next (Middleware) is called.  Requests  *)
(* are numbered in the order they arrive.                                  *)
(***************************************************************************)
RecoverEnter(r) ==
    /\ pc[r] = "idle"
    /\ \A q \in Req : q < r => pc[q] /= "idle"
    /\ Work + 2 <= MaxWork
    /\ \E s \in Shapes :
          /\ method' = [method EXCEPT ![r] = s[1]]
          /\ path' = [path EXCEPT ![r] = s[2]]
          /\ contentLength' = [contentLength EXCEPT ![r] = s[3]]
    /\ pc' = [pc EXCEPT ![r] = "mw_enter"]
    /\ UNCHANGED <<writerVars, panicVars, ioVars, emitted, counterVars, RequestsInFlight>>
    /\ UNCHANGED mainVars

\* m.RequestsInFlight.WithLabelValues(r.Method).Inc()
InFlightInc(gauge, m) == [gauge EXCEPT ![m] = @ + 1]

\* a Dec on one fixed label, whatever the request's method
InFlightDec_FixedLabel(gauge, m) == [gauge EXCEPT !["GET"] = @ - 1]

\* defer m.RequestsInFlight.WithLabelValues(r.Method).Dec()
InFlightDec(gauge, m) == [gauge EXCEPT ![m] = @ - 1]

(***************************************************************************)
(* Middleware up to the call of next: start := time.Now(); the in-flight   *)
(* Inc, its Dec deferred; the request-size observation;                    *)
(* newMetricsResponseWriter(w); next.ServeHTTP(metricsWriter, r).          *)
(***************************************************************************)
MwBefore(r) ==
    /\ pc[r] = "mw_enter"
    /\ RequestsInFlight' = InFlightInc(RequestsInFlight, method[r])
    /\ IF ObservesRequestSize(contentLength[r])
          THEN /\ RequestSize' = Observe(RequestSize, <<method[r], path[r]>>,
                                         Float64(contentLength[r]))
               /\ emitted' = [emitted EXCEPT ![r] = @ \o
                     << Event("RequestsInFlight", <<method[r]>>, 1),
                        Event("RequestSize", <<method[r], path[r]>>,
                              Float64(contentLength[r])) >>]
          ELSE /\ emitted' = [emitted EXCEPT ![r] = @ \o
                     << Event("RequestsInFlight", <<method[r]>>, 1) >>]
               /\ UNCHANGED RequestSize
    /\ statusCode' = [statusCode EXCEPT ![r] = StatusOK]
    /\ responseSize' = [responseSize EXCEPT ![r] = 0]
    /\ pc' = [pc EXCEPT ![r] = "handler"]
    /\ UNCHANGED <<reqVars, panicVars, ioVars, RequestCounter, ResponseDuration,
                   ResponseSize, TotalErrors, RequestsByStatus>>
    /\ UNCHANGED mainVars

(***************************************************************************)
(* The downstream handler calls metricsWriter.WriteHeader(code).           *)
(***************************************************************************)
WriteHeader(r, code) ==
    /\ pc[r] = "handler"
    /\ Work + 1 <= MaxWork
    /\ statusCode' = [statusCode EXCEPT ![r] = CaptureStatus(@, code)]
    /\ sink' = [sink EXCEPT ![r] = Append(@, HeaderCall(code))]
    /\ got' = [got EXCEPT ![r] = Append(@, HeaderCall(code))]
    /\ UNCHANGED <<pc, reqVars, responseSize, panicVars, emitted, counterVars,
                   RequestsInFlight>>
    /\ UNCHANGED mainVars

(***************************************************************************)
(* The downstream handler calls metricsWriter.Write(b), len(b) = n; the    *)
(* sink accepts size bytes.                                                *)
(***************************************************************************)
Write(r, n, size) ==
    /\ pc[r] = "handler"
    /\ Work + 1 <= MaxWork
    /\ sink' = [sink EXCEPT ![r] = Append(@, WriteCall(n, size, size < n))]
    /\ responseSize' = [responseSize EXCEPT ![r] = AddWritten(@, n, size)]
    /\ got' = [got EXCEPT ![r] = Append(@, WriteResult(n, size, size < n))]
    /\ UNCHANGED <<pc, reqVars, statusCode, panicVars, emitted, counterVars,
                   RequestsInFlight>>
    /\ UNCHANGED mainVars

(***************************************************************************)
(* next.ServeHTTP returns normally.                                        *)
(***************************************************************************)
HandlerReturn(r) ==
    /\ pc[r] = "handler"
    /\ exit' = [exit EXCEPT ![r] = "return"]
    /\ pc' = [pc EXCEPT ![r] = "mw_after"]
    /\ UNCHANGED <<reqVars, writerVars, panicking, err, ioVars, emitted, counterVars,
                   RequestsInFlight>>
    /\ UNCHANGED mainVars

\* a Dec that is not deferred: the panic skips it
HandlerPanic_DecSkipped(r, v) ==
    /\ pc[r] = "handler"
    /\ exit' = [exit EXCEPT ![r] = "panic"]
    /\ panicking' = [panicking EXCEPT ![r] = v]
    /\ pc' = [pc EXCEPT ![r] = "rec_defer"]
    /\ UNCHANGED <<reqVars, writerVars, err, ioVars, emitted, counterVars,
                   RequestsInFlight>>
    /\ UNCHANGED mainVars

\* the recording done in a deferred func: it runs for a panic as well
HandlerPanic_Recorded(r, v) ==
    /\ pc[r] = "handler"
    /\ exit' = [exit EXCEPT ![r] = "panic"]
    /\ panicking' = [panicking EXCEPT ![r] = v]
    /\ pc' = [pc EXCEPT ![r] = "mw_after"]
    /\ UNCHANGED <<reqVars, writerVars, err, ioVars, emitted, counterVars,
                   RequestsInFlight>>
    /\ UNCHANGED mainVars

(***************************************************************************)
(* next.ServeHTTP panics with value v: the rest of Middleware's func is    *)
(* skipped and its deferred call runs.                                     *)
(***************************************************************************)
HandlerPanic(r, v) ==
    /\ pc[r] = "handler"
    /\ exit' = [exit EXCEPT ![r] = "panic"]
    /\ panicking' = [panicking EXCEPT ![r] = v]
    /\ pc' = [pc EXCEPT ![r] = "mw_defer"]
    /\ UNCHANGED <<reqVars, writerVars, err, ioVars, emitted, counterVars,
                   RequestsInFlight>>
    /\ UNCHANGED mainVars

\* the instrument calls Middleware makes after next returned, in order
AfterEvents(m, p, status, size, duration) ==
    << Event("RequestCounter", <<m, p, StatusLabel(status)>>, 1),
       Event("ResponseDuration", <<m, p, StatusLabel(status)>>, duration),
       Event("RequestsByStatus", <<StatusClass(status), StatusLabel(status)>>, 1) >>
    \o (IF ObservesResponseSize(size)
           THEN << Event("ResponseSize", <<m, p>>, Float64(size)) >> ELSE << >>)
    \o (IF IsError(status)
           THEN << Event("TotalErrors", <<m, p, ErrorType(status)>>, 1) >> ELSE << >>)

(***************************************************************************)
(* Middleware after next returned: duration, statusCode and statusClass,   *)
(* then RequestCounter.Inc, ResponseDuration.Observe, RequestsByStatus.Inc,*)
(* ResponseSize.Observe when bytes were written, TotalErrors.Inc when the  *)
(* status is 400 or more.                                                  *)
(***************************************************************************)
MwAfter(r) ==
    /\ pc[r] = "mw_after"
    /\ \E duration \in Elapsed :
          LET m == method[r]
              p == path[r]
              status == statusCode[r]
              size == responseSize[r]
          IN  /\ RequestCounter' = Inc(RequestCounter, <<m, p, StatusLabel(status)>>)
              /\ ResponseDuration' =
                    Observe(ResponseDuration, <<m, p, StatusLabel(status)>>, duration)
              /\ RequestsByStatus' =
                    Inc(RequestsByStatus, <<StatusClass(status), StatusLabel(status)>>)
              /\ ResponseSize' =
                    IF ObservesResponseSize(size)
                       THEN Observe(ResponseSize, <<m, p>>, Float64(size))
                       ELSE ResponseSize
              /\ TotalErrors' =
                    IF IsError(status)
                       THEN Inc(TotalErrors, <<m, p, ErrorType(status)>>)
                       ELSE TotalErrors
              /\ emitted' = [emitted EXCEPT ![r] =
                                @ \o AfterEvents(m, p, status, size, duration)]
    /\ pc' = [pc EXCEPT ![r] = "mw_defer"]
    /\ UNCHANGED <<reqVars, writerVars, panicVars, ioVars, RequestSize, RequestsInFlight>>
    /\ UNCHANGED mainVars

(***************************************************************************)
(* Middleware's deferred RequestsInFlight{method}.Dec(): it runs when the  *)
(* func returns and when a panic unwinds it.                               *)
(***************************************************************************)
MwDeferred(r) ==
    /\ pc[r] = "mw_defer"
    /\ RequestsInFlight' = InFlightDec(RequestsInFlight, method[r])
    /\ emitted' = [emitted EXCEPT ![r] =
                      Append(@, Event("RequestsInFlight", <<method[r]>>, -1))]
    /\ pc' = [pc EXCEPT ![r] = "rec_defer"]
    /\ UNCHANGED <<reqVars, writerVars, panicVars, ioVars, counterVars>>
    /\ UNCHANGED mainVars

(***************************************************************************)
(* RecoverMiddleware's deferred func.  recover() returns e; when e is not  *)
(* nil, TotalErrors{method, path, "panic"}.Inc() and http.Error(w, "Internal*)
(* Server Error", 500), which is w.WriteHeader(500) and one w.Write of the *)
(* text on the real ResponseWriter, its result dropped.                    *)
(***************************************************************************)
RecoverDeferred(r) ==
    /\ pc[r] = "rec_defer"
    /\ \E e \in RecoverValues(panicking[r]) :
          /\ err' = [err EXCEPT ![r] = e]
          /\ IF Recovered(e)
                THEN /\ TotalErrors' = Inc(TotalErrors, <<method[r], path[r], "panic">>)
                     /\ emitted' = [emitted EXCEPT ![r] = Append(@,
                           Event("TotalErrors", <<method[r], path[r], "panic">>, 1))]
                     /\ \E size \in SinkAccepts(ErrorBodyLen) :
                           sink' = [sink EXCEPT ![r] =
                               @ \o << HeaderCall(StatusInternalServerError),
                                       WriteCall(ErrorBodyLen, size, size < ErrorBodyLen) >>]
                ELSE UNCHANGED <<TotalErrors, emitted, sink>>
    /\ panicking' = [panicking EXCEPT ![r] = AfterRecover(@)]
    /\ pc' = [pc EXCEPT ![r] = "done"]
    /\ UNCHANGED <<reqVars, writerVars, exit, got, RequestCounter, ResponseDuration,
                   RequestSize, ResponseSize, RequestsByStatus, RequestsInFlight>>
    /\ UNCHANGED mainVars

Next ==
    \E r \in Req :
        \/ RecoverEnter(r)
        \/ MwBefore(r)
        \/ \E code \in Codes : WriteHeader(r, code)
        \/ \E n \in WriteLens : \E size \in SinkAccepts(n) : Write(r, n, size)
        \/ HandlerReturn(r)
        \/ \E v \in { "nil", "error" } : HandlerPanic(r, v)
        \/ MwAfter(r)
        \/ MwDeferred(r)
        \/ RecoverDeferred(r)

Spec == Init /\ [][Next]_vars

(***************************************************************************)
(* One request whose handler sets at most one status, any three-digit one. *)
(***************************************************************************)
StatusCodes == 100..999

NextStatus ==
    \/ RecoverEnter(1)
    \/ MwBefore(1)
    \/ \E code \in StatusCodes : got[1] = << >> /\ WriteHeader(1, code)
    \/ HandlerReturn(1)
    \/ \E v \in { "nil", "error" } : HandlerPanic(1, v)
    \/ MwAfter(1)
    \/ MwDeferred(1)
    \/ RecoverDeferred(1)

SpecStatus == Init /\ [][NextStatus]_vars

(***************************************************************************)
(* One request whose handler makes every sequence of WriteHeader and Write *)
(* calls the run has room for; the interleaving of requests is that of     *)
(* Spec.                                                                   *)
(***************************************************************************)
NextOne ==
    \/ RecoverEnter(1)
    \/ MwBefore(1)
    \/ \E code \in Codes : WriteHeader(1, code)
    \/ \E n \in WriteLens : \E size \in SinkAccepts(n) : Write(1, n, size)
    \/ HandlerReturn(1)
    \/ \E v \in { "nil", "error" } : HandlerPanic(1, v)
    \/ MwAfter(1)
    \/ MwDeferred(1)
    \/ RecoverDeferred(1)

SpecOne == Init /\ [][NextOne]_vars

(***************************************************************************)
(* The chain nested the other way round, Middleware(RecoverMiddleware(h)): *)
(* the server hands the request to Middleware, whose next is               *)
(* RecoverMiddleware's func, and the w RecoverMiddleware writes to is the  *)
(* interceptor.                                                            *)
(***************************************************************************)
\* the server hands request r to Middleware
MiddlewareEnter(r) ==
    /\ pc[r] = "idle"
    /\ \A q \in Req : q < r => pc[q] /= "idle"
    /\ Work + 2 <= MaxWork
    /\ \E s \in Shapes :
          /\ method' = [method EXCEPT ![r] = s[1]]
          /\ path' = [path EXCEPT ![r] = s[2]]
          /\ contentLength' = [contentLength EXCEPT ![r] = s[3]]
    /\ pc' = [pc EXCEPT ![r] = "mw_enter"]
    /\ UNCHANGED <<writerVars, panicVars, ioVars, emitted, counterVars, RequestsInFlight>>
    /\ UNCHANGED mainVars

\* h panics with value v inside RecoverMiddleware's func: its deferred func runs
InnerPanic(r, v) ==
    /\ pc[r] = "handler"
    /\ exit' = [exit EXCEPT ![r] = "panic"]
    /\ panicking' = [panicking EXCEPT ![r] = v]
    /\ pc' = [pc EXCEPT ![r] = "inner_defer"]
    /\ UNCHANGED <<reqVars, writerVars, err, ioVars, emitted, counterVars,
                   RequestsInFlight>>
    /\ UNCHANGED mainVars

\* a recovery that writes to the server's ResponseWriter, past the interceptor
InnerRecoverDeferred_PastInterceptor(r) ==
    /\ pc[r] = "inner_defer"
    /\ \E e \in RecoverValues(panicking[r]) :
          /\ err' = [err EXCEPT ![r] = e]
          /\ IF Recovered(e)
                THEN /\ TotalErrors' = Inc(TotalErrors, <<method[r], path[r], "panic">>)
                     /\ emitted' = [emitted EXCEPT ![r] = Append(@,
                           Event("TotalErrors", <<method[r], path[r], "panic">>, 1))]
                     /\ \E size \in SinkAccepts(ErrorBodyLen) :
                           sink' = [sink EXCEPT ![r] =
                               @ \o << HeaderCall(StatusInternalServerError),
                                       WriteCall(ErrorBodyLen, size, size < ErrorBodyLen) >>]
                ELSE UNCHANGED <<TotalErrors, emitted, sink>>
    /\ panicking' = [panicking EXCEPT ![r] = AfterRecover(@)]
    /\ pc' = [pc EXCEPT ![r] = "mw_after"]
    /\ UNCHANGED <<reqVars, writerVars, exit, got, RequestCounter, ResponseDuration,
                   RequestSize, ResponseSize, RequestsByStatus, RequestsInFlight>>
    /\ UNCHANGED mainVars

(***************************************************************************)
(* RecoverMiddleware's deferred func under Middleware.  recover() returns  *)
(* e and stops the panic; when e is not nil, TotalErrors{method, path,     *)
(* "panic"}.Inc() and http.Error(w, ...) with w the interceptor: its       *)
(* WriteHeader(500) sets statusCode and its Write adds what the sink       *)
(* accepted to responseSize.  The func then returns to Middleware as from  *)
(* a normal call.                                                          *)
(***************************************************************************)
InnerRecoverDeferred(r) ==
    /\ pc[r] = "inner_defer"
    /\ \E e \in RecoverValues(panicking[r]) :
          /\ err' = [err EXCEPT ![r] = e]
          /\ IF Recovered(e)
                THEN /\ TotalErrors' = Inc(TotalErrors, <<method[r], path[r], "panic">>)
                     /\ emitted' = [emitted EXCEPT ![r] = Append(@,
                           Event("TotalErrors", <<method[r], path[r], "panic">>, 1))]
                     /\ statusCode' = [statusCode EXCEPT ![r] =
                                           CaptureStatus(@, StatusInternalServerError)]
                     /\ \E size \in SinkAccepts(ErrorBodyLen) :
                           /\ sink' = [sink EXCEPT ![r] =
                                 @ \o << HeaderCall(StatusInternalServerError),
                                         WriteCall(ErrorBodyLen, size, size < ErrorBodyLen) >>]
                           /\ responseSize' = [responseSize EXCEPT ![r] =
                                                   AddWritten(@, ErrorBodyLen, size)]
                ELSE UNCHANGED <<TotalErrors, emitted, sink, writerVars>>
    /\ panicking' = [panicking EXCEPT ![r] = AfterRecover(@)]
    /\ pc' = [pc EXCEPT ![r] = "mw_after"]
    /\ UNCHANGED <<reqVars, exit, got, RequestCounter, ResponseDuration,
                   RequestSize, ResponseSize, RequestsByStatus, RequestsInFlight>>
    /\ UNCHANGED mainVars

\* Middleware's deferred Dec, Middleware being the outermost func of the chain
OuterMwDeferred(r) ==
    /\ pc[r] = "mw_defer"
    /\ RequestsInFlight' = InFlightDec(RequestsInFlight, method[r])
    /\ emitted' = [emitted EXCEPT ![r] =
                      Append(@, Event("RequestsInFlight", <<method[r]>>, -1))]
    /\ pc' = [pc EXCEPT ![r] = "done"]
    /\ UNCHANGED <<reqVars, writerVars, panicVars, ioVars, counterVars>>
    /\ UNCHANGED mainVars

\* One request, its handler free to make every call the run has room for; the
\* interleaving of requests is that of Spec.
NextInner ==
    \/ MiddlewareEnter(1)
    \/ MwBefore(1)
    \/ \E code \in Codes : WriteHeader(1, code)
    \/ \E n \in WriteLens : \E size \in SinkAccepts(n) : Write(1, n, size)
    \/ HandlerReturn(1)
    \/ \E v \in { "nil", "error" } : InnerPanic(1, v)
    \/ InnerRecoverDeferred(1)
    \/ MwAfter(1)
    \/ OuterMwDeferred(1)

SpecInner == Init /\ [][NextInner]_vars

(***************************************************************************)
(* The calls of main.go's functions, from any goroutines, in a process     *)
(* whose registries may hold names already.                                *)
(***************************************************************************)
InitSetup ==
    /\ InitChain
    /\ InitCalls
    /\ \E pre \in Preexisting :
          registered = [g \in Registries |->
                           IF g = DefaultRegistry THEN pre.d
                           ELSE IF g = AppRegistry THEN pre.a ELSE {}]

NextSetup ==
    \E c \in Calls :
        \/ \E cfg \in Configs : CallWithConfig(c, "InitMetrics", cfg)
        \/ \E cfg \in Configs : CallWithConfig(c, "SetupMetricsServer", cfg)
        \/ GetMetrics(c)
        \/ OnceDo(c)
        \/ NewMetrics(c)
        \/ RegisterBundle(c)
        \/ InitReturn(c)
        \/ SetupReturn(c)

SpecSetup == InitSetup /\ [][NextSetup]_vars

(***************************************************************************)
(*                              Properties                                 *)
(***************************************************************************)
\* the calls request r made on instrument inst, in order
EventsOf(r, inst) == SelectSeq(emitted[r], LAMBDA e : e.inst = inst)

\* the error-counter increments of request r with error_type t
ErrorsOf(r, t) == SelectSeq(emitted[r], LAMBDA e : e.inst = "TotalErrors" /\ e.labels[3] = t)

\* the handler of r has returned or panicked
Ended(r) == pc[r] \in { "mw_after", "mw_defer", "rec_defer", "done" }

\* Middleware has made its calls for the normal return of r's handler
Recorded(r) == exit[r] = "return" /\ pc[r] \in { "mw_defer", "rec_defer", "done" }

\* every request that arrived has left the chain
AllFinished == \A r \in Req : pc[r] \in { "idle", "done" }

\* The status a transport with single-header semantics (net/http) sends for
\* the calls log: the code of a WriteHeader that comes first, else 200.
ClientStatus(log) ==
    IF log /= << >> /\ log[1].op = "WriteHeader" THEN log[1].arg ELSE 200

\* the WriteHeader calls of log
HeaderCalls(log) == SelectSeq(log, LAMBDA c : c.op = "WriteHeader")

\* the two calls of http.Error(w, "Internal Server Error", 500) on a sink
IsErrorResponse(calls) ==
    /\ Len(calls) = 2
    /\ calls[1] = HeaderCall(500)
    /\ calls[2].op = "Write" /\ calls[2].arg = 22

\* C1 as stated: once every request has finished, the request counter summed
\* over all its label tuples equals the number of requests that completed,
\* by a normal return or by panic recovery.
C1_CounterEqualsCompleted ==
    AllFinished =>
        BagCardinality(RequestCounter) = Cardinality({ r \in Req : pc[r] = "done" })

\* C1 amended: in every state the request counter summed over all its label
\* tuples equals the number of requests whose handler returned normally and
\* that Middleware has recorded; each of those made exactly one increment and
\* a request that ended by a panic made none.
C1_CounterEqualsNormalReturns ==
    /\ BagCardinality(RequestCounter) = Cardinality({ r \in Req : Recorded(r) })
    /\ \A r \in Req :
          Len(EventsOf(r, "RequestCounter")) = (IF Recorded(r) THEN 1 ELSE 0)
    /\ AllFinished =>
          BagCardinality(RequestCounter) = Cardinality({ r \in Req : exit[r] = "return" })

C1_Witness ==
    /\ AllFinished
    /\ \E r, q \in Req :
          /\ pc[r] = "done" /\ exit[r] = "return"
          /\ pc[q] = "done" /\ exit[q] = "panic" /\ Recovered(err[q])
          /\ BagCardinality(RequestCounter) = 1

\* C2: a request makes exactly one Inc of the in-flight gauge of its method
\* on entering Middleware and exactly one Dec of the same gauge on leaving it,
\* by return or by panic; with no request inside Middleware every gauge is
\* back at its initial value.
C2_InFlightPaired ==
    /\ \A r \in Req :
          LET g == EventsOf(r, "RequestsInFlight") IN
          CASE pc[r] \in { "idle", "mw_enter" } -> g = << >>
            [] pc[r] \in { "handler", "mw_after", "mw_defer" } ->
                 g = << Event("RequestsInFlight", <<method[r]>>, 1) >>
            [] OTHER ->
                 g = << Event("RequestsInFlight", <<method[r]>>, 1),
                        Event("RequestsInFlight", <<method[r]>>, -1) >>
    /\ (\A r \in Req : pc[r] \in { "idle", "mw_enter", "rec_defer", "done" }) =>
          \A m \in Methods : RequestsInFlight[m] = 0

C2_Witness ==
    \E r, q \in Req :
        /\ pc[r] = "done" /\ exit[r] = "panic"
        /\ pc[q] = "done" /\ exit[q] = "return"
        /\ method[r] = method[q]
        /\ RequestsInFlight[method[r]] = 0

C4_FirstStatusCaptured ==
    \A r \in Req :
        (Ended(r) /\ exit[r] = "return" /\ HeaderCalls(got[r]) /= << >>) =>
            statusCode[r] = HeaderCalls(got[r])[1].arg

\* the decimal numeral of a three-digit number
Decimal3(s) == Digit(s \div 100) \o Digit((s \div 10) % 10) \o Digit(s % 10)

\* C5: a request that completed with captured status s has exactly one
\* error-counter increment when s >= 400 and none otherwise, labelled
\* client_error for 400..499 and server_error for 500..599; an increment
\* labelled panic is made only by RecoverMiddleware's recovery.
C5_ErrorCounter ==
    \A r \in Req :
        LET s == statusCode[r]
            errs == EventsOf(r, "TotalErrors")
            own == SelectSeq(errs, LAMBDA e : e.labels[3] /= "panic")
        IN  /\ Recorded(r) =>
                 /\ Len(own) = (IF s >= 400 THEN 1 ELSE 0)
                 /\ (s >= 400 /\ s < 500) =>
                        own = << Event("TotalErrors", <<method[r], path[r], "client_error">>, 1) >>
                 /\ (s >= 500 /\ s < 600) =>
                        own = << Event("TotalErrors", <<method[r], path[r], "server_error">>, 1) >>
                 /\ \A i \in 1..Len(own) : BagIn(own[i].labels, TotalErrors)
                 /\ ErrorsOf(r, "panic") = << >>
            /\ ~Recorded(r) => own = << >>
            /\ ErrorsOf(r, "panic") /= << >> =>
                 pc[r] = "done" /\ exit[r] = "panic" /\ Recovered(err[r])

C5_Witness ==
    \E r \in Req :
        /\ pc[r] = "done" /\ exit[r] = "return" /\ statusCode[r] = 499
        /\ BagIn(<<method[r], path[r], "client_error">>, TotalErrors)

\* the sum of the byte counts the sink reported for the Write calls of log
RECURSIVE SinkWritten(_)
SinkWritten(log) ==
    IF log = << >> THEN 0
    ELSE (IF Head(log).op = "Write" THEN Head(log).size ELSE 0) + SinkWritten(Tail(log))

\* the calls on r's sink that came through its interceptor
Forwarded(r) == SubSeq(sink[r], 1, Len(got[r]))

\* C6: after any Write calls on an interceptor, short and failed ones
\* included, its byte count is the sum of the counts the sink reported.
C6_ByteCount ==
    \A r \in Req :
        pc[r] \notin { "idle", "mw_enter" } => responseSize[r] = SinkWritten(Forwarded(r))

C6_Witness ==
    \E r \in Req :
        /\ Len(got[r]) = 2
        /\ \E i, j \in 1..2 :
              /\ i /= j
              /\ sink[r][i].op = "Write" /\ sink[r][i].size = 1 /\ sink[r][i].arg = 2
              /\ sink[r][j].op = "Write" /\ sink[r][j].size = 0
        /\ responseSize[r] = 1

\* C7: a request whose declared length is 0 or unknown (-1) never makes a
\* request-size observation; one whose length is positive makes exactly one,
\* of that length under (method, path), and has made it when the handler is
\* called, so also when the handler panics.
C7_RequestSizeObserved ==
    \A r \in Req :
        LET obs == EventsOf(r, "RequestSize") IN
        IF pc[r] \notin { "idle", "mw_enter" } /\ contentLength[r] > 0
           THEN /\ obs = << Event("RequestSize", <<method[r], path[r]>>, contentLength[r]) >>
                /\ emitted[r][2] = obs[1]
                /\ BagIn(<<<<method[r], path[r]>>, contentLength[r]>>, RequestSize)
           ELSE obs = << >>

C7_Witness ==
    \E r, q \in Req :
        /\ pc[r] = "done" /\ exit[r] = "panic" /\ contentLength[r] = 1500
        /\ pc[q] = "handler" /\ contentLength[q] = -1
        /\ BagCardinality(RequestSize) = 1

\* C8: for a request whose handler returned with captured status s,
\* Middleware makes exactly one increment of request counter{method, path, s},
\* one observation of duration{method, path, s} and one increment of
\* status-by-class{class, s}, each with the decimal numeral of s.
C8_OneOfEach ==
    \A r \in Req :
        Recorded(r) =>
            LET s == Decimal3(statusCode[r])
                c == EventsOf(r, "RequestCounter")
                d == EventsOf(r, "ResponseDuration")
                b == EventsOf(r, "RequestsByStatus")
            IN  /\ c = << Event("RequestCounter", <<method[r], path[r], s>>, 1) >>
                /\ Len(d) = 1 /\ d[1].labels = <<method[r], path[r], s>> /\ d[1].v >= 0
                /\ Len(b) = 1 /\ b[1].labels[2] = s /\ b[1].v = 1
                /\ BagIn(c[1].labels, RequestCounter)
                /\ BagIn(<<d[1].labels, d[1].v>>, ResponseDuration)
                /\ BagIn(b[1].labels, RequestsByStatus)

C8_Witness ==
    \E r \in Req :
        /\ pc[r] = "done" /\ exit[r] = "return" /\ statusCode[r] = 404
        /\ BagIn(<<"GET", "/users", "404">>, RequestCounter)

\* C9: the calls that reach the real sink through the interceptor are the
\* calls the handler made, in order and with their arguments, and the handler
\* gets back from each what the sink reported; Middleware itself makes no
\* call on the sink.
C9_Transparent ==
    \A r \in Req :
        /\ Forwarded(r) = got[r]
        /\ pc[r] /= "done" => sink[r] = got[r]

C9_Witness ==
    \E r \in Req :
        /\ pc[r] = "rec_defer" /\ Len(got[r]) = 2
        /\ got[r][1].op = "WriteHeader"
        /\ got[r][2].op = "Write" /\ got[r][2].err /\ got[r][2].size = 1
        /\ sink[r] = got[r]

\* the first decimal digit of n
RECURSIVE FirstDigit(_)
FirstDigit(n) == IF n < 10 THEN n ELSE FirstDigit(n \div 10)

\* C10: the status_class of a status-by-class increment is the first decimal
\* digit of the captured status code followed by "xx", for every code
\* 100..999.
C10_StatusClass ==
    \A r \in Req :
        \A i \in 1..Len(emitted[r]) :
            emitted[r][i].inst = "RequestsByStatus" =>
                /\ emitted[r][i].labels =
                      << Digit(FirstDigit(statusCode[r])) \o "xx", Decimal3(statusCode[r]) >>
                /\ BagIn(emitted[r][i].labels, RequestsByStatus)

C10_Witness ==
    \E r \in Req :
        /\ pc[r] = "done" /\ statusCode[r] = 999
        /\ BagIn(<<"9xx", "999">>, RequestsByStatus)

(***************************************************************************)
(*                  Properties of the construction (main.go)               *)
(***************************************************************************)
\* call c of InitMetrics or GetMetrics has returned a value to its caller
Returned(c) == cpc[c] = "returned" /\ ckind[c] /= "SetupMetricsServer"

\* the names of the instruments of the bundle in metrics
BundleNames == BundleOf(metricsNs)

\* the registries the construction registered the name into
RegisteredInto(name) == { g \in Registries : <<g, name>> \in registrations }

\* C11 as stated: under any interleaving of InitMetrics and GetMetrics calls
\* with any configs, the bundle is built at most once and every call that
\* returned gave its caller that one built bundle, never nil and never a
\* second one.
C11_OneBundleForAll ==
    /\ built <= 1
    /\ \A c \in Calls :
          Returned(c) => cresult[c] /= 0 /\ cresult[c] = metrics

\* C12: a name of the bundle that the registry being registered into already
\* holds makes the constructing call panic, in NewMetrics or in InitMetrics'
\* registration, and that call returns no bundle and no mux; a call panics
\* only in those two steps, and the registries change only in those two
\* steps, which are the construction.
C12_CollisionPanicsAtConstruction ==
    [][ \A c \in Calls :
          /\ ( /\ cpc[c] = "new_metrics"
               /\ BundleOf(ccfg[c].Namespace) \cap registered[DefaultRegistry] /= {}
               /\ cpc'[c] /= cpc[c] )
                  => cpc'[c] = "panicked" /\ metrics' = metrics
          /\ ( /\ cpc[c] = "register"
               /\ ccfg[c].Registry /= NoRegistry
               /\ BundleNames \cap registered[ccfg[c].Registry] /= {}
               /\ cpc'[c] /= cpc[c] )
                  => cpc'[c] = "panicked"
          /\ cpc'[c] = "panicked"
                  => /\ cpc[c] \in { "new_metrics", "register", "panicked" }
                     /\ cresult'[c] = "none"
                     /\ served'[c] = NoRegistry
          /\ registered' /= registered
                  => \E b \in Calls : /\ cpc[b] \in { "new_metrics", "register" }
                                      /\ cpc'[b] /= cpc[b]
      ]_vars

C12_Witness ==
    \E c \in Calls :
       /\ cpc[c] = "panicked"
       /\ ccfg[c].Registry = AppRegistry
       /\ metrics /= 0
       /\ registered[AppRegistry] = { FullName("app", "http_requests_total"),
                                      FullName("app", "http_request_duration_seconds"),
                                      FullName("app", "http_request_size_bytes") }

\* C13: a request whose handler panicked has made no request-counter
\* increment, no duration observation, no status-by-class increment, no
\* response-size observation and no client_error or server_error increment;
\* whatever those instruments hold was put there by requests that returned
\* normally, whether or not the panicking handler had set a status or written.
C13_PanicRecordsNothing ==
    /\ \A r \in Req :
          exit[r] = "panic" =>
             /\ \A inst \in { "RequestCounter", "ResponseDuration", "RequestsByStatus",
                               "ResponseSize" } : EventsOf(r, inst) = << >>
             /\ ErrorsOf(r, "client_error") = << >>
             /\ ErrorsOf(r, "server_error") = << >>
    /\ LET recorded == { r \in Req : Recorded(r) } IN
          /\ BagCardinality(RequestCounter) = Cardinality(recorded)
          /\ BagCardinality(ResponseDuration) = Cardinality(recorded)
          /\ BagCardinality(RequestsByStatus) = Cardinality(recorded)
          /\ BagCardinality(ResponseSize)
                = Cardinality({ r \in recorded : responseSize[r] > 0 })
          /\ BagCardinality(TotalErrors)
                = Cardinality({ r \in recorded : statusCode[r] >= 400 })
                  + Cardinality({ r \in Req : ErrorsOf(r, "panic") /= << >> })

C13_Witness ==
    \E r \in Req :
        /\ pc[r] = "done" /\ exit[r] = "panic" /\ Recovered(err[r])
        /\ statusCode[r] = 503 /\ responseSize[r] > 0
        /\ RequestCounter = EmptyBag /\ ResponseDuration = EmptyBag
        /\ RequestsByStatus = EmptyBag /\ ResponseSize = EmptyBag
        /\ TotalErrors = SetToBag({ <<method[r], path[r], "panic">> })

\* C14: a request whose handler returned normally has made exactly one
\* response-size observation, labelled with its method and path and equal to
\* the bytes the sink accepted through the interceptor, when that count is
\* above zero, and none when it is zero; the histogram holds these and no
\* other observations.
C14_ResponseSizeObserved ==
    /\ \A r \in Req :
          LET o == EventsOf(r, "ResponseSize")
              n == SinkWritten(Forwarded(r))
          IN  IF Recorded(r) /\ n > 0
                 THEN /\ o = << Event("ResponseSize", <<method[r], path[r]>>, n) >>
                      /\ BagIn(<< <<method[r], path[r]>>, n >>, ResponseSize)
                 ELSE o = << >>
    /\ BagCardinality(ResponseSize)
          = Cardinality({ r \in Req : Recorded(r) /\ SinkWritten(Forwarded(r)) > 0 })

C14_Witness ==
    \E r \in Req :
        /\ pc[r] = "done" /\ exit[r] = "return"
        /\ got[r] = << WriteCall(2, 1, TRUE), WriteCall(1, 0, TRUE), WriteCall(1, 1, FALSE) >>
        /\ ResponseSize = SetToBag({ << <<method[r], path[r]>>, 2 >> })

\* C15 as stated: once the initialization has completed, each of the seven
\* instruments has been registered exactly once: into one registry, and into
\* no second one.
C15_RegisteredOnce ==
    (metricsOnce = "done" /\ metrics /= 0 /\ \A c \in Calls : cpc[c] /= "panicked")
       => \A name \in BundleNames : Cardinality(RegisteredInto(name)) = 1

\* the requests with method m that have entered Middleware and not left it
InMiddleware(m) ==
    { r \in Req : method[r] = m /\ pc[r] \in { "handler", "mw_after", "mw_defer" } }

\* C16: in every state, under any interleaving of requests and whether their
\* handlers return or panic, the in-flight gauge of each method is its initial
\* value 0 plus the number of requests with that method that have entered
\* Middleware and not left it, so never below 0; every Inc and Dec a request
\* makes carries that request's method.
C16_InFlightGauge ==
    /\ \A m \in Methods :
          /\ RequestsInFlight[m] = Cardinality(InMiddleware(m))
          /\ RequestsInFlight[m] >= 0
    /\ \A r \in Req :
          \A i \in 1..Len(emitted[r]) :
             emitted[r][i].inst = "RequestsInFlight" => emitted[r][i].labels = <<method[r]>>

C16_Witness ==
    \E r, q \in Req :
        /\ r /= q
        /\ method[r] = "POST" /\ exit[r] = "panic" /\ pc[r] = "rec_defer"
        /\ method[q] = "POST" /\ pc[q] = "handler"
        /\ RequestsInFlight["POST"] = 1
        /\ RequestsInFlight["GET"] = 0

\* C17 as stated: for a request whose handler returned normally, the status
\* label of its request-counter increment, of its duration observation and of
\* its status-by-class increment is the status the sink committed: the code of
\* the first WriteHeader, or 200 when a Write came before any WriteHeader or
\* WriteHeader was never called, whatever WriteHeader calls came later.
C17_LabelIsCommittedStatus ==
    \A r \in Req :
        Recorded(r) =>
            LET s == Decimal3(ClientStatus(Forwarded(r))) IN
            /\ EventsOf(r, "RequestCounter")[1].labels[3] = s
            /\ EventsOf(r, "ResponseDuration")[1].labels[3] = s
            /\ EventsOf(r, "RequestsByStatus")[1].labels[2] = s

\* C18 as stated: after SetupMetricsServer(cfg) has returned, the registry its
\* mux serves at cfg.MetricsPath holds all seven instruments of the bundle,
\* whatever calls were made before.
C18_ServedRegistryHoldsBundle ==
    \A c \in Calls :
       (ckind[c] = "SetupMetricsServer" /\ cpc[c] = "returned")
          => metrics /= 0 /\ BundleNames \subseteq registered[served[c]]

\* what C19 says of a request that went through Middleware(RecoverMiddleware(h))
\* and whose handler panicked
ReversedPanicRecorded(r) ==
    LET m == method[r]
        p == path[r]
        n == Len(sink[r])
    IN  /\ n >= 2
        /\ IsErrorResponse(SubSeq(sink[r], n - 1, n))
        /\ statusCode[r] = 500
        /\ responseSize[r] = SinkWritten(sink[r])
        /\ EventsOf(r, "RequestCounter") = << Event("RequestCounter", <<m, p, "500">>, 1) >>
        /\ BagIn(<<m, p, "500">>, RequestCounter)
        /\ EventsOf(r, "TotalErrors")
              = << Event("TotalErrors", <<m, p, "panic">>, 1),
                   Event("TotalErrors", <<m, p, "server_error">>, 1) >>
        /\ BagIn(<<m, p, "panic">>, TotalErrors)
        /\ BagIn(<<m, p, "server_error">>, TotalErrors)
        /\ EventsOf(r, "RequestsInFlight")
              = << Event("RequestsInFlight", <<m>>, 1), Event("RequestsInFlight", <<m>>, -1) >>
        /\ (AllFinished => RequestsInFlight[m] = 0)

=============================================================================
